---- MODULE Spec2Model ----
(***************************************************************************)
(* repoze.who.plugins.ldap: LDAPAuthenticatorPlugin, LDAPAttributesPlugin  *)
(* and make_ldap_connection (plugins.py), modelled as a state machine.     *)
(*                                                                         *)
(* Python values are records tagged with their type.  Strings are tuples   *)
(* of character codes and keep their Python 2 type (str = bytes, unicode). *)
(* An LDAP connection is a reference [type, id] into the heap of handles.  *)
(* Every call is synchronous, so each operation is one atomic action; the  *)
(* outcome of the LDAP server / python-ldap library is an input of the     *)
(* action.                                                                 *)
(***************************************************************************)
EXTENDS Integers, Sequences, FiniteSets, TLC

VARIABLES
    heap,               \* the connection handles that exist, by id
    authenticator,      \* the LDAPAuthenticatorPlugin instance, or NoPlugin
    attributes_plugin,  \* the LDAPAttributesPlugin instance, or NoPlugin
    identity,           \* the identity dict of the last add_metadata call
    logger,             \* what environ['repoze.who.logger'] got in the last call
    lastCall            \* the last operation: its arguments and its outcome

vars == <<heap, authenticator, attributes_plugin, identity, logger, lastCall>>

----------------------------------------------------------------------------
(* Bounds of the model *)

\* longest generated login
MaxLen == 1
\* most connection handles that may exist
MaxHandles == 6
\* most (name, value) pairs in one search result
MaxResult == 2

----------------------------------------------------------------------------
(* Python values *)

None == [type |-> "NoneType"]
PyStr(c) == [type |-> "str", chars |-> c]
PyUnicode(c) == [type |-> "unicode", chars |-> c]
PyInt(n) == [type |-> "int", val |-> n]
PyList(s) == [type |-> "list", items |-> s]
PyDict(f) == [type |-> "dict", d |-> f]
LDAPObject(i) == [type |-> "LDAPObject", id |-> i]

EmptyDict == PyDict([k \in {} |-> None])

IsString(v) == v.type \in {"str", "unicode"}

\* The outcome of evaluating a call: it returns val, or raises exc.
Return(v) == [exc |-> "", val |-> v]
Raise(e) == [exc |-> e, val |-> None]

\* Python's exception hierarchy, as far as the except clauses need it.
IsInstance(exc, cls) ==
    \/ exc = cls
    \/ cls = "ValueError" /\ exc \in {"UnicodeDecodeError"}
    \/ cls = "LDAPError" /\ exc \in {"INVALID_CREDENTIALS", "SERVER_DOWN", "NO_SUCH_OBJECT"}

\* except (c1, c2, ...): does the clause catch exc?
Caught(exc, classes) == \E c \in classes : IsInstance(exc, c)

\* obj[key]
GetItem(obj, key) ==
    IF obj.type = "dict"
    THEN IF key \in DOMAIN obj.d THEN Return(obj.d[key]) ELSE Raise("KeyError")
    ELSE Raise("TypeError")

\* obj.get(key), of a dict
DictGet(obj, key) == IF key \in DOMAIN obj.d THEN obj.d[key] ELSE None

\* obj[key] = value, of a dict
SetItem(obj, key, value) ==
    PyDict([k \in (DOMAIN obj.d) \cup {key} |-> IF k = key THEN value ELSE obj.d[k]])

----------------------------------------------------------------------------
(* Strings *)

\* "uid="
UidEq == <<117, 105, 100, 61>>
\* ","
Comma == <<44>>
\* "rms"
Rms == <<114, 109, 115>>
\* "ou=developers,dc=gnu,dc=org"
GnuBase == <<111, 117, 61, 100, 101, 118, 101, 108, 111, 112, 101, 114, 115, 44,
             100, 99, 61, 103, 110, 117, 44, 100, 99, 61, 111, 114, 103>>
\* "cn=admin", the identity the caller bound its connection as
AdminDn == <<99, 110, 61, 97, 100, 109, 105, 110>>
\* "ldap://h"
LdapUrl == <<108, 100, 97, 112, 58, 47, 47, 104>>
\* "(objectClass=*)"
DefaultFilter == <<40, 111, 98, 106, 101, 99, 116, 67, 108, 97, 115, 115, 61, 42, 41>>
\* "(cn=*)"
CnFilter == <<40, 99, 110, 61, 42, 41>>
\* "cn,mail"
CnMail == <<99, 110, 44, 109, 97, 105, 108>>
\* "cn"
Cn == <<99, 110>>
\* "mail"
Mail == <<109, 97, 105, 108>>

\* Whether Python 2 can coerce the string to unicode with the ascii codec.
DecodesAscii(s) ==
    s.type = "unicode" \/ \A i \in 1..Len(s.chars) : s.chars[i] < 128

\* u'uid=%s,%s' % (login, base_dn), for strings: a str argument is decoded
\* with the ascii codec, the result is unicode.
FormatDn(login, base_dn) ==
    IF DecodesAscii(login) /\ DecodesAscii(base_dn)
    THEN Return(PyUnicode(UidEq \o login.chars \o Comma \o base_dn.chars))
    ELSE Raise("UnicodeDecodeError")

RECURSIVE SplitChars(_, _, _)
\* chars.split(sep): cur is the piece being read
SplitChars(chars, sep, cur) ==
    IF chars = <<>> THEN <<cur>>
    ELSE IF Head(chars) = sep
         THEN <<cur>> \o SplitChars(Tail(chars), sep, <<>>)
         ELSE SplitChars(Tail(chars), sep, Append(cur, Head(chars)))

\* attributes.split(',')
Split(s) ==
    LET parts == SplitChars(s.chars, 44, <<>>)
    IN  PyList([i \in 1..Len(parts) |-> [type |-> s.type, chars |-> parts[i]]])

----------------------------------------------------------------------------
(* The python-ldap library, as the plugins use it *)

\* ldap.SCOPE_BASE
SCOPE_BASE == 0

\* The empty DN: an anonymous bind state.
Anonymous == PyStr(<<>>)

NoPlugin == [type |-> "NoneType"]

\* hasattr(connection, 'simple_bind_s')
HasSimpleBind(h, conn) == h[conn.id].has_bind

\* ldap.initialize(uri): a new, unbound connection object for a URI the
\* library accepts; lib is what the library does with this URI.
ldap_initialize(h, uri, lib) ==
    IF lib = "ok"
    THEN [exc |-> "", val |-> LDAPObject(Len(h) + 1),
          heap |-> Append(h, [uri |-> uri, bound |-> Anonymous,
                              closed |-> FALSE, has_bind |-> TRUE])]
    ELSE [exc |-> lib, val |-> None, heap |-> h]

\* connection.simple_bind_s(who, cred): server is the directory's answer.
\* The library rejects a credential that is not a string before sending
\* anything; a successful bind makes who the identity of the connection,
\* a refused one leaves it anonymous (RFC 4513, section 4).
simple_bind_s(h, conn, who, cred, server) ==
    IF ~h[conn.id].has_bind THEN [exc |-> "AttributeError", heap |-> h]
    ELSE IF ~IsString(cred) THEN [exc |-> "TypeError", heap |-> h]
    ELSE IF server = "ok"
    THEN [exc |-> "", heap |-> [h EXCEPT ![conn.id].bound = who]]
    ELSE IF server = "INVALID_CREDENTIALS"
    THEN [exc |-> server, heap |-> [h EXCEPT ![conn.id].bound = Anonymous]]
    ELSE [exc |-> server, heap |-> h]

\* connection.search_s(base, scope, filterstr, attrlist): server is the
\* directory's answer, [exc, val]; the library rejects a base that is not
\* a string.  The search runs as the identity the connection is bound as.
search_s(h, conn, base, scope, filterstr, attrlist, server) ==
    IF ~IsString(base) THEN Raise("TypeError") ELSE server

----------------------------------------------------------------------------
(* Utilities *)

\* A mutation of make_ldap_connection: an empty address is refused too.
make_ldap_connection_refusing_empty(ldap_connection, h, lib) ==
    IF IsString(ldap_connection) /\ ldap_connection.chars # <<>>
    THEN ldap_initialize(h, ldap_connection, lib)
    ELSE IF ldap_connection = None \/ IsString(ldap_connection)
    THEN [exc |-> "ValueError", val |-> None, heap |-> h]
    ELSE [exc |-> "", val |-> ldap_connection, heap |-> h]

\* make_ldap_connection(ldap_connection): [exc, val, heap]
make_ldap_connection(ldap_connection, h, lib) ==
    IF ldap_connection.type = "str" \/ ldap_connection.type = "unicode"
    THEN ldap_initialize(h, ldap_connection, lib)
    ELSE IF ldap_connection = None
    THEN [exc |-> "ValueError", val |-> None, heap |-> h]
    ELSE [exc |-> "", val |-> ldap_connection, heap |-> h]

----------------------------------------------------------------------------
(* LDAPAuthenticatorPlugin *)

\* A mutation of the constructor's check: an empty base DN is refused too.
BaseDnMissing_or_empty(base_dn) ==
    base_dn = None \/ (IsString(base_dn) /\ base_dn.chars = <<>>)

\* base_dn is None
BaseDnMissing(base_dn) == base_dn = None

\* LDAPAuthenticatorPlugin.__init__(ldap_connection, base_dn): [exc, val, heap]
LDAPAuthenticatorPlugin_init(ldap_connection, base_dn, h, lib) ==
    IF BaseDnMissing(base_dn)
    THEN [exc |-> "ValueError", val |-> None, heap |-> h]
    ELSE LET c == make_ldap_connection(ldap_connection, h, lib)
         IN  IF c.exc # "" THEN c
             ELSE [exc |-> "", heap |-> c.heap,
                   val |-> [type |-> "LDAPAuthenticatorPlugin",
                            ldap_connection |-> c.val, base_dn |-> base_dn]]

\* self._get_dn(environ, identity)
_get_dn(self, ident) ==
    LET login == GetItem(ident, "login")
        dn == IF login.exc = "" THEN FormatDn(login.val, self.base_dn) ELSE login
    IN  IF dn.exc # "" /\ Caught(dn.exc, {"KeyError", "TypeError"})
        THEN Raise("ValueError")
        ELSE dn

\* A mutation of the except clause of authenticate: KeyError is not caught.
CredentialErrors_without_KeyError == {"TypeError", "ValueError"}

\* except (KeyError, TypeError, ValueError)
CredentialErrors == {"KeyError", "TypeError", "ValueError"}

\* except ldap.LDAPError
BindErrors == {"LDAPError"}

\* A mutation of the capability check: the check is skipped.
CanBind_unchecked(h, conn) == TRUE

\* hasattr(self.ldap_connection, 'simple_bind_s')
CanBind(h, conn) == HasSimpleBind(h, conn)

BindWarning == "Cannot bind with the provided LDAP connection object"

\* The result of one call of authenticate: what it returns or raises, the
\* heap it leaves, the binds it attempted and the warnings it logged.
AuthResult(out, h, binds, warnings) ==
    [exc |-> out.exc, val |-> out.val, heap |-> h, binds |-> binds, warnings |-> warnings]

\* LDAPAuthenticatorPlugin.authenticate(environ, identity)
authenticate(self, ident, h, server) ==
    LET dn == _get_dn(self, ident)
        password == IF dn.exc = "" THEN GetItem(ident, "password") ELSE dn
    IN  IF password.exc # ""
        THEN IF Caught(password.exc, CredentialErrors)
             THEN AuthResult(Return(None), h, <<>>, <<>>)
             ELSE AuthResult(Raise(password.exc), h, <<>>, <<>>)
        ELSE IF ~CanBind(h, self.ldap_connection)
        THEN AuthResult(Return(None), h, <<>>, <<BindWarning>>)
        ELSE LET b == simple_bind_s(h, self.ldap_connection, dn.val, password.val, server)
                 call == <<[conn |-> self.ldap_connection, who |-> dn.val,
                            cred |-> password.val, exc |-> b.exc]>>
             IN  IF b.exc = "" THEN AuthResult(Return(dn.val), b.heap, call, <<>>)
                 ELSE IF Caught(b.exc, BindErrors)
                 THEN AuthResult(Return(None), b.heap, call, <<>>)
                 ELSE AuthResult(Raise(b.exc), b.heap, call, <<>>)

----------------------------------------------------------------------------
(* LDAPAttributesPlugin *)

\* LDAPAttributesPlugin.__init__(ldap_connection, attributes, filterstr)
LDAPAttributesPlugin_init(ldap_connection, attributes, filterstr, h, lib) ==
    LET attrs == IF IsString(attributes) THEN Return(Split(attributes))
                 ELSE IF attributes.type = "list" THEN Return(PyList(attributes.items))
                 ELSE IF attributes # None THEN Raise("ValueError")
                 ELSE Return(None)
        c == make_ldap_connection(ldap_connection, h, lib)
    IN  IF attrs.exc # "" THEN [exc |-> attrs.exc, val |-> None, heap |-> h]
        ELSE IF c.exc # "" THEN c
        ELSE [exc |-> "", heap |-> c.heap,
              val |-> [type |-> "LDAPAttributesPlugin", ldap_connection |-> c.val,
                       attributes |-> attrs.val, filterstr |-> filterstr]]

RECURSIVE WritePairs_keeping_first(_, _)
\* A mutation of the loop of add_metadata: a name already written is kept.
WritePairs_keeping_first(ident, pairs) ==
    IF pairs = <<>> THEN ident
    ELSE LET rest == WritePairs_keeping_first(ident, SubSeq(pairs, 1, Len(pairs) - 1))
             last == pairs[Len(pairs)]
         IN  IF \E i \in 1..(Len(pairs) - 1) : pairs[i][1] = last[1]
             THEN rest
             ELSE SetItem(rest, last[1], last[2])

RECURSIVE WritePairs(_, _)
\* for (attr_key, attr_value) in result: identity[attr_key] = attr_value
WritePairs(ident, pairs) ==
    IF pairs = <<>> THEN ident
    ELSE WritePairs(SetItem(ident, Head(pairs)[1], Head(pairs)[2]), Tail(pairs))

\* A mutation of the search arguments: the configured filter is dropped.
SearchArgs_default_filter(self, ident) ==
    <<DictGet(ident, "repoze.who.userid"), SCOPE_BASE, PyStr(DefaultFilter), self.attributes>>

\* args = (identity.get('repoze.who.userid'), ldap.SCOPE_BASE,
\*         self.filterstr, self.attributes)
SearchArgs(self, ident) ==
    <<DictGet(ident, "repoze.who.userid"), SCOPE_BASE, self.filterstr, self.attributes>>

\* except ldap.LDAPError, msg
SearchErrors == {"LDAPError"}

MetadataWarning(msg) == <<"Cannot add metadata: %s", msg>>

\* LDAPAttributesPlugin.add_metadata(environ, identity): what it raises, the
\* identity dict it leaves, the searches it issued and the warnings it logged.
add_metadata(self, ident, h, server) ==
    LET args == SearchArgs(self, ident)
        call == <<[conn |-> self.ldap_connection, base |-> args[1], scope |-> args[2],
                   filterstr |-> args[3], attrlist |-> args[4],
                   bound |-> h[self.ldap_connection.id].bound]>>
        r == search_s(h, self.ldap_connection, args[1], args[2], args[3], args[4], server)
    IN  IF r.exc = ""
        THEN [exc |-> "", identity |-> WritePairs(ident, r.val.items), searches |-> call,
              found |-> r, warnings |-> <<>>]
        ELSE IF Caught(r.exc, SearchErrors)
        THEN [exc |-> "", identity |-> ident, searches |-> call,
              found |-> r, warnings |-> <<MetadataWarning(r.exc)>>]
        ELSE [exc |-> r.exc, identity |-> ident, searches |-> call,
              found |-> r, warnings |-> <<>>]

----------------------------------------------------------------------------
(* Inputs *)

\* Character codes of the generated logins: "a" and the byte 0xE9.
Alphabet == {97, 233}

\* Every tuple over Alphabet of length at most n.
Tuples(n) == UNION {[1..k -> Alphabet] : k \in 0..n}

Logins == {PyStr(c) : c \in Tuples(MaxLen)} \cup {PyUnicode(c) : c \in Tuples(MaxLen)}
              \cup {PyUnicode(Rms)}

\* A string password and one that is not a string.
Passwords == {PyStr(<<112>>), PyInt(0)}

\* The credential dicts: each of login and password present or missing.
CredentialDicts ==
    {EmptyDict, PyDict([login |-> PyUnicode(Rms)]), PyDict([login |-> PyStr(<<233>>)])}
        \cup {PyDict([password |-> p]) : p \in Passwords}
        \cup {PyDict([login |-> l, password |-> p]) : l \in Logins, p \in Passwords}

\* The credential dicts that have a login.
LoginDicts == {c \in CredentialDicts : "login" \in DOMAIN c.d}

\* Values that are not mappings.
NonMappings == {None, PyList(<<>>), PyInt(0), PyStr(Rms)}

Credentials == CredentialDicts \cup NonMappings

\* What the directory answers to a bind.
BindAnswers == {"ok", "INVALID_CREDENTIALS", "SERVER_DOWN"}

\* The ldap_connection arguments: nothing, an empty address, an address, a
\* connection the caller built, and an object without simple_bind_s.
ConnArgs == {None, PyStr(<<>>), PyStr(LdapUrl), LDAPObject(1), [type |-> "object", id |-> 2]}

\* The base_dn arguments.
BaseArgs == {None, PyUnicode(<<>>), PyUnicode(GnuBase), PyStr(<<111, 61, 233>>)}

\* What ldap.initialize does with the address: it accepts an LDAP URL; for
\* any other string it may return a connection object or raise.
LibAnswers(ldap_connection) ==
    IF IsString(ldap_connection) /\ ldap_connection.chars # LdapUrl
    THEN {"ok", "LDAPError"}
    ELSE {"ok"}

\* The attributes arguments: all, a comma-separated string, a list, a number.
AttrArgs == {None, PyStr(CnMail), PyList(<<PyStr(Cn), PyStr(Mail)>>), PyInt(0)}

\* The filterstr arguments: the default and a custom one.
FilterArgs == {PyStr(DefaultFilter), PyStr(CnFilter)}

\* The verified identifiers an identity dict may carry.
UserIds == {PyUnicode(UidEq \o Rms \o Comma \o GnuBase), PyUnicode(UidEq \o <<97>> \o Comma)}

\* The identity dicts: a login, with or without a verified identifier and
\* an earlier "cn".
IdentityDicts ==
    {PyDict([login |-> PyStr(<<97>>)])}
        \cup {PyDict([k \in {"repoze.who.userid", "login"} |->
                        IF k = "login" THEN PyStr(<<97>>) ELSE u]) : u \in UserIds}
        \cup {PyDict([k \in {"repoze.who.userid", "login", "cn"} |->
                        IF k = "repoze.who.userid" THEN u ELSE PyStr(<<97>>)]) : u \in UserIds}

\* The (name, value) pairs a search may return.
Pairs == {<<"cn", PyStr(<<97>>)>>, <<"cn", PyStr(<<98>>)>>, <<"mail", PyStr(<<97>>)>>}

\* What the directory answers to a search: a list of pairs, or an error.
SearchAnswers ==
    {Return(PyList(r)) : r \in UNION {[1..k -> Pairs] : k \in 0..MaxResult}}
        \cup {Raise("NO_SUCH_OBJECT"), Raise("SERVER_DOWN")}

----------------------------------------------------------------------------
(* The state machine *)

\* The caller has built a connection (1) and bound it as AdminDn; 2 is an
\* object that does not provide simple_bind_s.
InitialHeap ==
    <<[uri |-> PyStr(LdapUrl), bound |-> PyStr(AdminDn), closed |-> FALSE, has_bind |-> TRUE],
      [uri |-> PyStr(LdapUrl), bound |-> PyStr(AdminDn), closed |-> FALSE, has_bind |-> FALSE]>>

Init ==
    /\ heap = InitialHeap
    /\ authenticator = NoPlugin
    /\ attributes_plugin = NoPlugin
    /\ identity = EmptyDict
    /\ logger = <<>>
    /\ lastCall = [op |-> "start"]

\* make_ldap_connection(c)
MakeLdapConnection(Conns) ==
    \E c \in Conns : \E lib \in LibAnswers(c) :
        LET r == make_ldap_connection(c, heap, lib)
        IN  /\ Len(r.heap) <= MaxHandles
            /\ heap' = r.heap
            /\ logger' = <<>>
            /\ lastCall' = [op |-> "make_ldap_connection", args |-> <<c>>,
                            exc |-> r.exc, val |-> r.val, handles |-> Len(heap)]
            /\ UNCHANGED <<authenticator, attributes_plugin, identity>>

\* authenticator = LDAPAuthenticatorPlugin(c, b): the plugin is constructed once
NewAuthenticator(Conns, Bases) ==
    /\ authenticator = NoPlugin
    /\ \E c \in Conns, b \in Bases : \E lib \in LibAnswers(c) :
        LET r == LDAPAuthenticatorPlugin_init(c, b, heap, lib)
        IN  /\ Len(r.heap) <= MaxHandles
            /\ heap' = r.heap
            /\ authenticator' = IF r.exc = "" THEN r.val ELSE authenticator
            /\ logger' = <<>>
            /\ lastCall' = [op |-> "LDAPAuthenticatorPlugin", args |-> <<c, b>>,
                            exc |-> r.exc, val |-> r.val, handles |-> Len(heap)]
            /\ UNCHANGED <<attributes_plugin, identity>>

\* authenticator.authenticate(environ, ident)
Authenticate(Creds, Answers) ==
    /\ authenticator # NoPlugin
    /\ \E ident \in Creds, server \in Answers :
        LET r == authenticate(authenticator, ident, heap, server)
        IN  /\ heap' = r.heap
            /\ logger' = r.warnings
            /\ lastCall' = [op |-> "authenticate", args |-> <<ident>>,
                            exc |-> r.exc, val |-> r.val, binds |-> r.binds]
            /\ UNCHANGED <<authenticator, attributes_plugin, identity>>

\* authenticator._get_dn(environ, ident), called on its own
GetDn(Creds) ==
    /\ authenticator # NoPlugin
    /\ \E ident \in Creds :
        LET r == _get_dn(authenticator, ident)
        IN  /\ logger' = <<>>
            /\ lastCall' = [op |-> "_get_dn", args |-> <<ident>>,
                            exc |-> r.exc, val |-> r.val]
            /\ UNCHANGED <<heap, authenticator, attributes_plugin, identity>>

\* attributes_plugin = LDAPAttributesPlugin(c, a, f): the plugin is constructed once
NewAttributes(Conns, Attrs, Filters) ==
    /\ attributes_plugin = NoPlugin
    /\ \E c \in Conns, a \in Attrs, f \in Filters : \E lib \in LibAnswers(c) :
        LET r == LDAPAttributesPlugin_init(c, a, f, heap, lib)
        IN  /\ Len(r.heap) <= MaxHandles
            /\ heap' = r.heap
            /\ attributes_plugin' = IF r.exc = "" THEN r.val ELSE attributes_plugin
            /\ logger' = <<>>
            /\ lastCall' = [op |-> "LDAPAttributesPlugin", args |-> <<c, a, f>>,
                            exc |-> r.exc, val |-> r.val, handles |-> Len(heap)]
            /\ UNCHANGED <<authenticator, identity>>

\* attributes_plugin.add_metadata(environ, ident)
AddMetadata(Idents, Answers) ==
    /\ attributes_plugin # NoPlugin
    /\ \E ident \in Idents, server \in Answers :
        LET r == add_metadata(attributes_plugin, ident, heap, server)
        IN  /\ identity' = r.identity
            /\ logger' = r.warnings
            /\ lastCall' = [op |-> "add_metadata", args |-> <<ident>>,
                            exc |-> r.exc, val |-> None,
                            searches |-> r.searches, found |-> r.found]
            /\ UNCHANGED <<heap, authenticator, attributes_plugin>>

\* The authenticator alone.
NextAuth ==
    \/ NewAuthenticator(ConnArgs, BaseArgs)
    \/ Authenticate(Credentials, BindAnswers)
    \/ GetDn(LoginDicts \cup NonMappings)

SpecAuth == Init /\ [][NextAuth]_vars

\* The connection resolver alone.
NextConn == MakeLdapConnection(ConnArgs)

SpecConn == Init /\ [][NextConn]_vars

\* The metadata provider alone.
NextAttrs ==
    \/ NewAttributes(ConnArgs, AttrArgs, FilterArgs)
    \/ AddMetadata(IdentityDicts, SearchAnswers)

SpecAttrs == Init /\ [][NextAttrs]_vars

\* Both plugins on the one connection the caller built, as a pipeline uses
\* them: a few credentials, identities and directory answers.
SharedCredentials ==
    {PyDict([login |-> l, password |-> PyStr(<<112>>)]) : l \in {PyUnicode(Rms), PyStr(<<97>>)}}
        \cup {PyDict([login |-> PyUnicode(Rms)])}

SharedIdentities ==
    {PyDict([k \in {"repoze.who.userid"} |-> u]) : u \in UserIds}

SharedAnswers ==
    {Return(PyList(<<>>)), Return(PyList(<<<<"cn", PyStr(<<97>>)>>>>)), Raise("SERVER_DOWN")}

Next ==
    \/ NewAuthenticator({LDAPObject(1)}, {PyUnicode(GnuBase), PyUnicode(<<>>)})
    \/ NewAttributes({LDAPObject(1)}, {None, PyStr(CnMail)}, {PyStr(DefaultFilter)})
    \/ Authenticate(SharedCredentials, BindAnswers)
    \/ AddMetadata(SharedIdentities, SharedAnswers)

Spec == Init /\ [][Next]_vars

----------------------------------------------------------------------------
(* The claims *)

\* The identifier the specification gives for a login and a base:
\* "uid=" + L + "," + B.
UidOf(login, base) == UidEq \o login.chars \o Comma \o base.chars

\* The credential record has both login and password.
HasBoth(c) == c.type = "dict" /\ {"login", "password"} \subseteq DOMAIN c.d

\* The connection the authenticator holds provides simple_bind_s.
AuthenticatorCanBind == heap[authenticator.ldap_connection.id].has_bind

\* Some bind of the last authenticate call succeeded.
BindSucceeded == \E i \in 1..Len(lastCall.binds) : lastCall.binds[i].exc = ""

\* C1: for every credential record with both login and password and every
\* outcome of the bind, authenticate raises nothing, returns the identifier
\* uid=<login>,<base> exactly when the bind of (identifier, password)
\* succeeded, and returns None when the bind raised.
C1_AuthenticateIffBindSucceeds ==
    (lastCall.op = "authenticate" /\ HasBoth(lastCall.args[1])) =>
        /\ lastCall.exc = ""
        /\ BindSucceeded <=> lastCall.val # None
        /\ BindSucceeded =>
            /\ lastCall.val.chars = UidOf(lastCall.args[1].d["login"], authenticator.base_dn)
            /\ lastCall.binds[1].who = lastCall.val
            /\ lastCall.binds[1].cred = lastCall.args[1].d["password"]

\* C2: authenticate returns None, raising nothing and binding nothing, for
\* every credential record that lacks login or password or is no mapping,
\* whatever state the connection is in.
C2_IncompleteCredentialsAbsent ==
    (lastCall.op = "authenticate" /\ ~HasBoth(lastCall.args[1])) =>
        /\ lastCall.exc = ""
        /\ lastCall.val = None
        /\ lastCall.binds = <<>>

\* C2 witness: a record that is no mapping, and one without password, were
\* refused on a connection whose bind state an earlier call has changed.
C2_Witness ==
    /\ lastCall.op = "authenticate"
    /\ lastCall.args[1] \in {None, PyDict([login |-> PyUnicode(Rms)])}
    /\ lastCall.val = None
    /\ AuthenticatorCanBind
    /\ heap[authenticator.ldap_connection.id].bound # PyStr(AdminDn)

\* C3 as stated: on a connection without simple_bind_s every call of
\* authenticate returns None, logs exactly one warning, raises nothing and
\* attempts no bind.
C3_EveryCallLogsOneWarning ==
    (lastCall.op = "authenticate" /\ ~AuthenticatorCanBind) =>
        /\ lastCall.exc = ""
        /\ lastCall.val = None
        /\ lastCall.binds = <<>>
        /\ Len(logger) = 1

\* The dn of the record can be derived: both strings coerce to unicode.
Derivable(c) == DecodesAscii(c.d["login"]) /\ DecodesAscii(authenticator.base_dn)

\* C3 amended: on a connection without simple_bind_s every call of
\* authenticate returns None, raises nothing and attempts no bind; it logs
\* exactly one warning when the record has login and password and its
\* identifier can be derived, and no warning when the record is refused
\* before the capability check.
C3_WarningOnlyForCompleteCredentials ==
    (lastCall.op = "authenticate" /\ ~AuthenticatorCanBind) =>
        /\ lastCall.exc = ""
        /\ lastCall.val = None
        /\ lastCall.binds = <<>>
        /\ logger = IF HasBoth(lastCall.args[1]) /\ Derivable(lastCall.args[1])
                    THEN <<BindWarning>>
                    ELSE <<>>

\* C3 witness: a complete record met a connection without simple_bind_s.
C3_Witness ==
    /\ lastCall.op = "authenticate"
    /\ ~AuthenticatorCanBind
    /\ HasBoth(lastCall.args[1])
    /\ logger = <<BindWarning>>

\* The names a search result holds, and the value of the last pair of a name.
Names(pairs) == {pairs[i][1] : i \in 1..Len(pairs)}
LastValue(pairs, name) ==
    LET i == CHOOSE i \in 1..Len(pairs) :
                /\ pairs[i][1] = name
                /\ \A j \in (i + 1)..Len(pairs) : pairs[j][1] # name
    IN  pairs[i][2]

\* C4: after add_metadata with a successful search, the identity record
\* maps every name of the result to the value of the last pair with that
\* name, and every other key keeps the value it had before the call.
C4_LastWriteWinsOthersKept ==
    (lastCall.op = "add_metadata" /\ lastCall.found.exc = "") =>
        LET before == lastCall.args[1].d
            pairs == lastCall.found.val.items
        IN  /\ DOMAIN identity.d = (DOMAIN before) \cup Names(pairs)
            /\ \A k \in DOMAIN identity.d :
                identity.d[k] = IF k \in Names(pairs) THEN LastValue(pairs, k) ELSE before[k]

\* C4 witness: the result named "cn" twice with different values, over a
\* record that already had "cn" and "login".
C4_Witness ==
    /\ lastCall.op = "add_metadata"
    /\ lastCall.found.exc = ""
    /\ lastCall.found.val.items = <<<<"cn", PyStr(<<98>>)>>, <<"cn", PyStr(<<97>>)>>>>
    /\ {"cn", "login"} \subseteq DOMAIN lastCall.args[1].d
    /\ identity.d["cn"] = PyStr(<<97>>)

\* C5: every add_metadata call on a record with verified identifier U issues
\* exactly one search, with scope base, target U and the filter and attribute
\* list the constructor configured (a comma string as the list of its parts).
C5_ExactlyOneBaseSearch ==
    /\ (lastCall.op = "add_metadata" /\ "repoze.who.userid" \in DOMAIN lastCall.args[1].d) =>
        /\ Len(lastCall.searches) = 1
        /\ lastCall.searches[1].conn = attributes_plugin.ldap_connection
        /\ lastCall.searches[1].base = lastCall.args[1].d["repoze.who.userid"]
        /\ lastCall.searches[1].scope = 0
        /\ lastCall.searches[1].filterstr = attributes_plugin.filterstr
        /\ lastCall.searches[1].attrlist = attributes_plugin.attributes
    /\ (lastCall.op = "LDAPAttributesPlugin" /\ lastCall.exc = "") =>
        /\ attributes_plugin.filterstr = lastCall.args[3]
        /\ attributes_plugin.attributes =
            IF lastCall.args[2] = PyStr(CnMail) THEN PyList(<<PyStr(Cn), PyStr(Mail)>>)
            ELSE lastCall.args[2]

\* C5 witness: a search failed and was not retried, under a custom filter
\* and an attribute list given as a comma string.
C5_Witness ==
    /\ lastCall.op = "add_metadata"
    /\ "repoze.who.userid" \in DOMAIN lastCall.args[1].d
    /\ lastCall.found.exc = "SERVER_DOWN"
    /\ attributes_plugin.filterstr = PyStr(CnFilter)
    /\ lastCall.searches[1].attrlist = PyList(<<PyStr(Cn), PyStr(Mail)>>)

\* C6: add_metadata never raises: for every identity record and every
\* outcome of the search it returns normally, and when the search failed it
\* logs one warning and leaves the identity record as it was.
C6_AddMetadataNeverRaises ==
    lastCall.op = "add_metadata" =>
        /\ lastCall.exc = ""
        /\ lastCall.found.exc # "" => (Len(logger) = 1 /\ identity = lastCall.args[1])

\* The connection argument is a connection object, or an LDAP URL.
UsableConnection(c) == c.type \in {"LDAPObject", "object"} \/ c = PyStr(LdapUrl)

\* C7 as stated: constructing an Authenticator fails with ValueError when
\* the base is None or the empty string, and succeeds when the base is a
\* non-empty string and the connection is a handle or a valid address.
C7_EmptyOrAbsentBaseFails ==
    lastCall.op = "LDAPAuthenticatorPlugin" =>
        LET base == lastCall.args[2]
        IN  /\ (base = None \/ (IsString(base) /\ base.chars = <<>>)) => lastCall.exc = "ValueError"
            /\ (IsString(base) /\ base.chars # <<>> /\ UsableConnection(lastCall.args[1])) =>
                    lastCall.exc = ""

\* C7 amended: constructing an Authenticator fails with ValueError when the
\* base is None, and succeeds, keeping the base as given, when the base is
\* any string, the empty one included, and the connection is a handle or a
\* valid address.
C7_OnlyAbsentBaseFails ==
    lastCall.op = "LDAPAuthenticatorPlugin" =>
        LET base == lastCall.args[2]
        IN  /\ base = None => (lastCall.exc = "ValueError" /\ authenticator = NoPlugin)
            /\ (IsString(base) /\ UsableConnection(lastCall.args[1])) =>
                    /\ lastCall.exc = ""
                    /\ authenticator = lastCall.val
                    /\ authenticator.base_dn = base

\* C7 witness: an Authenticator was constructed with the empty base.
C7_Witness ==
    /\ lastCall.op = "LDAPAuthenticatorPlugin"
    /\ lastCall.args[2] = PyUnicode(<<>>)
    /\ lastCall.exc = ""
    /\ authenticator # NoPlugin

\* C8 as stated: make_ldap_connection returns the handle it was given,
\* returns a new connection for a non-empty address, and fails with
\* ValueError, opening nothing, for None and for the empty string.
C8_EmptyAddressRefused ==
    lastCall.op = "make_ldap_connection" =>
        LET c == lastCall.args[1]
        IN  /\ c.type \in {"LDAPObject", "object"} =>
                (lastCall.exc = "" /\ lastCall.val = c /\ Len(heap) = lastCall.handles)
            /\ (IsString(c) /\ c.chars # <<>>) =>
                (lastCall.exc = "" /\ lastCall.val = LDAPObject(lastCall.handles + 1)
                    /\ Len(heap) = lastCall.handles + 1)
            /\ (c = None \/ (IsString(c) /\ c.chars = <<>>)) =>
                (lastCall.exc = "ValueError" /\ Len(heap) = lastCall.handles)

\* C8 amended: make_ldap_connection returns the handle it was given; it
\* fails with ValueError, opening nothing, only for None; every string, the
\* empty one included, goes to ldap.initialize, whose new unbound connection
\* is returned (always so for an LDAP URL) or whose error propagates.
C8_EveryStringInitialized ==
    lastCall.op = "make_ldap_connection" =>
        LET c == lastCall.args[1]
        IN  /\ c.type \in {"LDAPObject", "object"} =>
                (lastCall.exc = "" /\ lastCall.val = c /\ Len(heap) = lastCall.handles)
            /\ IsString(c) =>
                \/ /\ lastCall.exc = ""
                   /\ lastCall.val = LDAPObject(lastCall.handles + 1)
                   /\ Len(heap) = lastCall.handles + 1
                   /\ heap[Len(heap)].uri = c
                   /\ heap[Len(heap)].bound = Anonymous
                \/ /\ lastCall.exc = "LDAPError"
                   /\ c.chars # LdapUrl
                   /\ Len(heap) = lastCall.handles
            /\ c = None => (lastCall.exc = "ValueError" /\ Len(heap) = lastCall.handles)

\* C8 witness: the empty address produced a new connection.
C8_Witness ==
    /\ lastCall.op = "make_ldap_connection"
    /\ lastCall.args[1] = PyStr(<<>>)
    /\ lastCall.exc = ""
    /\ Len(heap) = lastCall.handles + 1

\* C9: across any sequence of authenticate and add_metadata calls on one
\* shared connection, the connection stays open and bound as the caller
\* bound it, and every search runs under that identity.
C9_SharedHandleKeepsBindState ==
    /\ \A i \in 1..Len(InitialHeap) : heap[i] = InitialHeap[i]
    /\ lastCall.op = "add_metadata" =>
        \A i \in 1..Len(lastCall.searches) : lastCall.searches[i].bound = PyStr(AdminDn)

\* C10: for every login L and base B, _get_dn yields "uid=" + L + "," + B.
C10_GetDnIsUidLoginBase ==
    (lastCall.op = "_get_dn" /\ lastCall.args[1].type = "dict"
        /\ "login" \in DOMAIN lastCall.args[1].d) =>
        /\ lastCall.exc = ""
        /\ lastCall.val.chars = UidOf(lastCall.args[1].d["login"], authenticator.base_dn)

====
